---- MODULE Spec2Model ----
(***************************************************************************)
(* Turn-decision heuristic of python-algo/algo_strategy.py (AlgoStrategy). *)
(*                                                                         *)
(* Resources are fixed-point numbers counted in halves (Unit = 2), since   *)
(* the strategy itself adds 0.5 to the cores balance (lines 129-130).      *)
(* Coordinates are pairs <<x, y>>.  The gamelib engine (GameState) is the  *)
(* external collaborator of the strategy; its calls are modelled from the  *)
(* interface contract of the specification (section 6).                    *)
(***************************************************************************)
EXTENDS Integers, Sequences, FiniteSets, TLC

\* ------------------------------------------------------------- bounds
\* last turn number a snapshot may carry
MaxTurn == 6
\* longest breach history that is still extended
MaxHistory == 2
\* most breach events in one action frame
MaxBatch == 2
\* estimator inputs: candidates, route length, attackers per tile
MaxOptions == 2
MaxPathLen == 2
MaxAttackers == 2

\* ------------------------------------------------------------- configuration
\* one resource unit in the fixed-point representation (halves)
Unit == 2

FILTER == "FF"
ENCRYPTOR == "EF"
DESTRUCTOR == "DF"
PING == "PI"
EMP == "EI"
SCRAMBLER == "SI"

\* __init__: the placement plan
destructor_goals == << <<3, 12>>, <<24, 12>>, <<13, 3>>, <<14, 3>> >>

filter_goals ==
    << <<5, 11>>, <<6, 10>>, <<7, 9>>, <<8, 8>>, <<9, 7>>, <<10, 6>>, <<11, 5>>,
       <<22, 11>>, <<21, 10>>, <<20, 9>>, <<19, 8>>, <<18, 7>>, <<17, 6>>, <<16, 5>> >>
    \o << <<4, 12>>, <<23, 12>>, <<3, 13>>, <<24, 13>> >>

secondary_destructor_goals == << <<2, 13>>, <<25, 13>> >>

encryptor_goals == << <<13, 2>> >>

third_destructor_goals == << <<13, 4>>, <<14, 4>>, <<12, 3>>, <<15, 3>> >>

\* on_game_start: the candidate launch coordinates
our_placements == << <<16, 2>>, <<11, 2>>, <<15, 1>>, <<12, 1>> >>

\* ------------------------------------------------------------- engine (gamelib.GameState)
\* A game state gs is a record
\*   board    : function from the occupied own-side coordinates to the unit type
\*   upgraded : set of coordinates whose structure is upgraded
\*   cores, bits : the two resource pools, in halves

is_stationary(unit) == unit \in {FILTER, ENCRYPTOR, DESTRUCTOR}

\* cost table of the configuration, in halves of a resource unit
type_cost(unit, upgrade) ==
    CASE unit = FILTER -> 1 * Unit
      [] unit = ENCRYPTOR -> 4 * Unit
      [] unit = DESTRUCTOR -> 6 * Unit
      [] unit = PING -> 1 * Unit
      [] unit = EMP -> 3 * Unit
      [] unit = SCRAMBLER -> 1 * Unit

\* per-hit damage of a unit type
damage_i(unit) == IF unit = DESTRUCTOR THEN 16 ELSE 0

get_resource(gs, kind) == IF kind = "CORES" THEN gs.cores ELSE gs.bits

number_affordable(gs, unit) ==
    (IF is_stationary(unit) THEN gs.cores ELSE gs.bits) \div type_cost(unit, FALSE)

contains_stationary_unit(gs, loc) == loc \in DOMAIN gs.board

\* the own half of the diamond-shaped arena
in_own_half(loc) ==
    /\ loc[2] >= 0 /\ loc[2] <= 13
    /\ loc[1] >= 13 - loc[2] /\ loc[1] <= 14 + loc[2]

\* bottom-left and bottom-right edges
on_own_edge(loc) ==
    /\ in_own_half(loc)
    /\ (loc[1] = 13 - loc[2] \/ loc[1] = 14 + loc[2])

can_spawn(gs, unit, loc, num) ==
    /\ in_own_half(loc)
    /\ number_affordable(gs, unit) >= num
    /\ ~contains_stationary_unit(gs, loc)
    /\ (is_stationary(unit) \/ on_own_edge(loc))
    /\ (~is_stationary(unit) \/ num = 1)

\* one unit placed at loc if the engine accepts it; r = [gs, n]
SpawnOne(r, unit, loc) ==
    IF can_spawn(r.gs, unit, loc, 1)
    THEN [gs |-> [r.gs EXCEPT
                    !.cores = IF is_stationary(unit) THEN @ - type_cost(unit, FALSE) ELSE @,
                    !.bits = IF is_stationary(unit) THEN @ ELSE @ - type_cost(unit, FALSE),
                    !.board = IF is_stationary(unit)
                              THEN [c \in DOMAIN @ \cup {loc} |-> IF c = loc THEN unit ELSE @[c]]
                              ELSE @],
          n |-> r.n + 1]
    ELSE r

RECURSIVE SpawnNum(_, _, _, _)
SpawnNum(r, unit, loc, k) ==
    IF k = 0 THEN r ELSE SpawnNum(SpawnOne(r, unit, loc), unit, loc, k - 1)

RECURSIVE SpawnLocations(_, _, _, _)
SpawnLocations(r, unit, locations, num) ==
    IF locations = << >> THEN r
    ELSE SpawnLocations(SpawnNum(r, unit, Head(locations), num), unit, Tail(locations), num)

\* attempt_spawn(unit, locations, num): [gs |-> state after, n |-> units placed]
attempt_spawn(gs, unit, locations, num) ==
    SpawnLocations([gs |-> gs, n |-> 0], unit, locations, num)

\* attemptUpgrade: no-op if no structure is present or it is already upgraded;
\* otherwise the upgrade is made and its cost taken from the cores
UpgradeOne(r, loc) ==
    IF /\ loc[2] < 14
       /\ contains_stationary_unit(r.gs, loc)
       /\ loc \notin r.gs.upgraded
    THEN [gs |-> [r.gs EXCEPT !.cores = @ - type_cost(r.gs.board[loc], TRUE),
                              !.upgraded = @ \cup {loc}],
          n |-> r.n + 1]
    ELSE r

RECURSIVE UpgradeLocations(_, _)
UpgradeLocations(r, locations) ==
    IF locations = << >> THEN r
    ELSE UpgradeLocations(UpgradeOne(r, Head(locations)), Tail(locations))

\* attempt_upgrade(locations): [gs |-> state after, n |-> upgrades made]
attempt_upgrade(gs, locations) == UpgradeLocations([gs |-> gs, n |-> 0], locations)

\* path service and threat query; an enemy layout is a record
\*   path      : function from a launch coordinate to its route (a sequence of tiles)
\*   attackers : function from a tile to the number of enemy attackers in range
find_path_to_edge(layout, location) == layout.path[location]

get_attackers(layout, tile) == layout.attackers[tile]

\* ------------------------------------------------------------- strategy helpers
Range(s) == {s[i] : i \in 1..Len(s)}

\* faulty variant: one present location is enough
destructor_set_built_Any(gs, d_list) ==
    \E i \in 1..Len(d_list) : contains_stationary_unit(gs, d_list[i])

\* destructor_set_built: every location of d_list holds a stationary unit
destructor_set_built(gs, d_list) ==
    \A i \in 1..Len(d_list) : contains_stationary_unit(gs, d_list[i])

\* faulty variant: an entry goes before the entries of its own row
RECURSIVE InsertByRow_Unstable(_, _)
InsertByRow_Unstable(sorted, f) ==
    IF sorted = << >> THEN << f >>
    ELSE IF Head(sorted)[2] <= f[2] THEN << f >> \o sorted
    ELSE << Head(sorted) >> \o InsertByRow_Unstable(Tail(sorted), f)

\* sorted(..., key=row, reverse=True) is stable: an entry goes before the first
\* entry of a strictly lower row
RECURSIVE InsertByRow(_, _)
InsertByRow(sorted, f) ==
    IF sorted = << >> THEN << f >>
    ELSE IF Head(sorted)[2] < f[2] THEN << f >> \o sorted
    ELSE << Head(sorted) >> \o InsertByRow(Tail(sorted), f)

RECURSIVE SortedByRow(_, _)
SortedByRow(todo, sorted) ==
    IF todo = << >> THEN sorted
    ELSE SortedByRow(Tail(todo), InsertByRow(sorted, Head(todo)))

filter_goals_for_reinforcement == SortedByRow(filter_goals, << >>)

\* lines 153-158: one greater x on the left, one smaller on the right
ReinforceTarget(f) == IF f[1] < 13 THEN << f[1] + 1, f[2] >> ELSE << f[1] - 1, f[2] >>

\* faulty variant: only the two centre columns are kept clear
InCenterPath_Narrow(loc) == loc[1] >= 13 /\ loc[1] <= 14

\* lines 160-161: the centre path stays clear
InCenterPath(loc) == loc[1] >= 12 /\ loc[1] <= 15

\* faulty variant: the gate only asks for the build cost
BelowFilterGate_OneUnit(gs) == get_resource(gs, "CORES") < 1 * Unit

\* lines 123 and 163: a filter is only created if it can also be upgraded
BelowFilterGate(gs) == get_resource(gs, "CORES") < 2 * Unit

\* faulty variant: 0.5 is added back after every spawn attempt
AccountingFix_Always(old, gs) == [gs EXCEPT !.cores = @ + (Unit \div 2)]

\* lines 128-130 and 167-169: 0.5 is added back when the spawn took more than 0.5
AccountingFix(old, gs) ==
    IF 2 * (old - get_resource(gs, "CORES")) > Unit
    THEN [gs EXCEPT !.cores = @ + (Unit \div 2)]
    ELSE gs

\* one call of the strategy to the engine, as recorded in the turn's order log
Order(op, unit, locs, num, done, pass, idx, seen) ==
    [op |-> op, unit |-> unit, locs |-> locs, num |-> num, done |-> done,
     pass |-> pass, idx |-> idx, seen |-> seen]

\* faulty variant: the upgrade is attempted before the filter is built
FilterPair_UpgradeFirst(gs, loc, pass, idx) ==
    LET old == get_resource(gs, "CORES")
        u == attempt_upgrade(gs, << loc >>)
        s == attempt_spawn(u.gs, FILTER, << loc >>, 1)
        fixed == AccountingFix(get_resource(u.gs, "CORES"), s.gs)
    IN  [gs |-> fixed,
         orders |-> << Order("spawn", FILTER, << loc >>, 1, s.n, pass, idx, old),
                       Order("upgrade", FILTER, << loc >>, 1, u.n, pass, idx, old) >>]

\* lines 125-132 and 165-170: build the filter, fix the accounting, upgrade it
FilterPair(gs, loc, pass, idx) ==
    LET old == get_resource(gs, "CORES")
        s == attempt_spawn(gs, FILTER, << loc >>, 1)
        fixed == AccountingFix(old, s.gs)
        u == attempt_upgrade(fixed, << loc >>)
    IN  [gs |-> u.gs,
         orders |-> << Order("spawn", FILTER, << loc >>, 1, s.n, pass, idx, old),
                       Order("upgrade", FILTER, << loc >>, 1, u.n, pass, idx, old) >>]

\* lines 137-145: encryptor, corner destructors, destructor upgrades
MidGame(gs) ==
    LET e == attempt_spawn(gs, ENCRYPTOR, encryptor_goals, 1)
        d == attempt_spawn(e.gs, DESTRUCTOR, secondary_destructor_goals, 1)
        u1 == attempt_upgrade(d.gs, destructor_goals)
        u2 == attempt_upgrade(u1.gs, secondary_destructor_goals)
    IN  [gs |-> u2.gs,
         orders |-> << Order("spawn", ENCRYPTOR, encryptor_goals, 1, e.n, "encryptor", 0, gs.cores),
                       Order("spawn", DESTRUCTOR, secondary_destructor_goals, 1, d.n, "corners", 0, e.gs.cores),
                       Order("upgrade", DESTRUCTOR, destructor_goals, 1, u1.n, "upgrades", 0, d.gs.cores),
                       Order("upgrade", DESTRUCTOR, secondary_destructor_goals, 1, u2.n, "upgrades", 0, u1.gs.cores) >>]

\* lines 179-180: the third destructor set
EndGame(gs) ==
    LET d == attempt_spawn(gs, DESTRUCTOR, third_destructor_goals, 1)
        u == attempt_upgrade(d.gs, third_destructor_goals)
    IN  [gs |-> u.gs,
         orders |-> << Order("spawn", DESTRUCTOR, third_destructor_goals, 1, d.n, "third", 0, gs.cores),
                       Order("upgrade", DESTRUCTOR, third_destructor_goals, 1, u.n, "third", 0, d.gs.cores) >>]

\* lines 198-206: the scrambler pair of the early turns
ScramblerTargets(turn_number) ==
    IF turn_number = 0 THEN << <<19, 5>>, <<22, 8>> >>
    ELSE IF turn_number = 1 THEN << <<1, 12>>, <<26, 12>> >>
    ELSE IF turn_number <= 5 THEN << <<0, 13>>, <<27, 13>> >>
    ELSE << >>

\* faulty variant: one ping fewer than the bits afford
max_num_pings_Short(gs) == get_resource(gs, "BITS") \div Unit - 1

\* line 241: int(get_resource(BITS, 0))
max_num_pings(gs) == get_resource(gs, "BITS") \div Unit

\* the step function of the turn number: 5, 10, 15, 20
StepThreshold(t) == IF t <= 5 THEN 5 ELSE IF t <= 9 THEN 10 ELSE IF t <= 15 THEN 15 ELSE 20

\* line 248: the spawn-currency threshold that gates a launch at a turn
spawn_threshold(turn_number) == 10

\* line 247: every candidate index is a good index
good_indices == 1..Len(our_placements)

\* line 258
spawn_attacker_threshold(health, damage_taken) == 2 * health >= 3 * damage_taken

\* location_to_damages, inner loop (lines 310-313)
RECURSIVE PathDamage(_, _, _)
PathDamage(layout, path, damage) ==
    IF path = << >> THEN damage
    ELSE PathDamage(layout, Tail(path),
                    damage + get_attackers(layout, Head(path)) * damage_i(DESTRUCTOR))

\* faulty variant: the damage of a route starts from the previous candidate's damage
RECURSIVE DamagesLoop_Carry(_, _, _)
DamagesLoop_Carry(layout, location_options, damages) ==
    IF location_options = << >> THEN damages
    ELSE DamagesLoop_Carry(layout, Tail(location_options),
                           Append(damages,
                                  PathDamage(layout,
                                             find_path_to_edge(layout, Head(location_options)),
                                             IF damages = << >> THEN 0 ELSE damages[Len(damages)])))

\* location_to_damages, outer loop (lines 308-314)
RECURSIVE DamagesLoop(_, _, _)
DamagesLoop(layout, location_options, damages) ==
    IF location_options = << >> THEN damages
    ELSE DamagesLoop(layout, Tail(location_options),
                     Append(damages,
                            PathDamage(layout, find_path_to_edge(layout, Head(location_options)), 0)))

location_to_damages(layout, location_options) == DamagesLoop(layout, location_options, << >>)

\* faulty variant: owner 2 is taken for the agent itself
RECURSIVE RecordBreaches_Flipped(_, _)
RecordBreaches_Flipped(history, breaches) ==
    IF breaches = << >> THEN history
    ELSE LET breach == Head(breaches)
             unit_owner_self == (breach[2] = 2)
         IN  RecordBreaches_Flipped(IF ~unit_owner_self THEN Append(history, breach[1]) ELSE history,
                                    Tail(breaches))

\* on_action_frame, lines 345-353: opponent-owned breaches are appended
RECURSIVE RecordBreaches(_, _)
RecordBreaches(history, breaches) ==
    IF breaches = << >> THEN history
    ELSE LET breach == Head(breaches)
             unit_owner_self == (breach[2] = 1)
         IN  RecordBreaches(IF ~unit_owner_self THEN Append(history, breach[1]) ELSE history,
                            Tail(breaches))

\* ------------------------------------------------------------- inputs
\* every coordinate a reinforcement filter may go to
reinforcement_targets ==
    {ReinforceTarget(f) : f \in Range(filter_goals)} \ {c \in {ReinforceTarget(f) : f \in Range(filter_goals)} : InCenterPath(c)}

\* a board holding destructors at D, encryptors at E and filters at F, those in U upgraded
BoardOf(D, E, F, U) ==
    [board |-> [c \in D \cup E \cup F |->
                    IF c \in D THEN DESTRUCTOR ELSE IF c \in E THEN ENCRYPTOR ELSE FILTER],
     upgraded |-> U]

EmptyBoard == BoardOf({}, {}, {}, {})

InitialBoard == BoardOf(Range(destructor_goals), {}, {}, {})

\* the diagonal filter line is placed but not upgraded
RawLineBoard == BoardOf(Range(destructor_goals), {}, Range(filter_goals), {})

DiagonalBoard == BoardOf(Range(destructor_goals), {}, Range(filter_goals), Range(filter_goals))

OneCornerBoard ==
    BoardOf(Range(destructor_goals) \cup {secondary_destructor_goals[1]}, Range(encryptor_goals),
            Range(filter_goals), Range(filter_goals))

CornersBoard ==
    BoardOf(Range(destructor_goals) \cup Range(secondary_destructor_goals), Range(encryptor_goals),
            Range(filter_goals),
            Range(filter_goals) \cup Range(destructor_goals) \cup Range(secondary_destructor_goals))

\* every coordinate the allocator ever targets is built and upgraded
FullBoard ==
    LET D == Range(destructor_goals) \cup Range(secondary_destructor_goals)
               \cup Range(third_destructor_goals)
        E == Range(encryptor_goals)
        F == Range(filter_goals) \cup reinforcement_targets
    IN  BoardOf(D, E, F, D \cup E \cup F)

\* a structure stands on the first launch coordinate
BlockedBoard ==
    BoardOf(Range(destructor_goals), {}, Range(filter_goals) \cup {our_placements[1]},
            Range(filter_goals))

SnapshotBoards ==
    {EmptyBoard, InitialBoard, RawLineBoard, DiagonalBoard, OneCornerBoard, CornersBoard,
     FullBoard, BlockedBoard}

\* cores of a snapshot, in halves: 0, 1, 2, 4.5, 40, 200
SnapshotCores == {0, 2, 4, 9, 80, 400}

\* bits of a snapshot, in halves: 9.5, 10, 12, 12.5
SnapshotBits == {19, 20, 24, 25}

\* tiles of the routes of the four launch coordinates
RouteTiles == {<<16, 3>>, <<11, 3>>, <<15, 2>>, <<12, 2>>}

LayoutOf(p1, p2, p3, p4, att) ==
    [path |-> [c \in Range(our_placements) |->
                  IF c = our_placements[1] THEN p1
                  ELSE IF c = our_placements[2] THEN p2
                  ELSE IF c = our_placements[3] THEN p3 ELSE p4],
     attackers |-> [t \in RouteTiles |-> IF t \in DOMAIN att THEN att[t] ELSE 0]]

\* no enemy threat on any route
CalmLayout ==
    LayoutOf(<< <<16, 3>> >>, << <<11, 3>> >>, << <<15, 2>> >>, << <<12, 2>> >>, << >>)

\* every route equally exposed
EvenLayout ==
    LayoutOf(<< <<16, 3>> >>, << <<11, 3>> >>, << <<15, 2>> >>, << <<12, 2>> >>,
             [t \in RouteTiles |-> 1])

\* the first route is the most exposed
SkewedLayout ==
    LayoutOf(<< <<16, 3>>, <<15, 2>> >>, << <<11, 3>> >>, << <<15, 2>> >>, << <<12, 2>> >>,
             [t \in RouteTiles |-> IF t = <<16, 3>> THEN 2 ELSE 1])

EnemyLayouts == {CalmLayout, EvenLayout, SkewedLayout}

NoLayout == [path |-> << >>, attackers |-> << >>]

\* breach events of an action frame: <<location, owner>>, owner 1 is the agent itself
BreachLocations == {<<5, 13>>, <<0, 13>>}

BreachEvents == BreachLocations \X {1, 2}

Frames == UNION {[1..n -> BreachEvents] : n \in 0..MaxBatch}

\* estimator inputs
EstimatorLocations == {our_placements[1], our_placements[2]}

EstimatorTiles == {<<16, 3>>, <<11, 3>>}

SeqsUpTo(S, n) == UNION {[1..k -> S] : k \in 0..n}

\* ------------------------------------------------------------- state
VARIABLES
    pc,                   \* position of the process: idle between calls, or inside on_turn
    fi,                   \* index of the filter loop in progress
    turn_number,          \* turn number of the latest snapshot, -1 before the first
    game_state,           \* the GameState of the turn in progress
    snapshot,             \* the game state as the turn's snapshot delivered it
    orders,               \* the calls made to the engine in the turn in progress
    setup_complete,       \* self.setup_complete
    scored_on_locations,  \* self.scored_on_locations
    gate_stop,            \* where the filter gate ended the allocator in this turn
    tier_check,           \* what destructor_set_built saw in this turn
    launch,               \* the launch decision of this turn
    enemy,                \* the enemy layout of the snapshot, once it is looked at
    submitted,            \* turn number of the latest submit_turn
    last_frame,           \* the latest action frame delivered since the last turn
    quiet_runs,           \* consecutive allocator runs so far on a fully built board
    est                   \* input and output of a location_to_damages call

vars == << pc, fi, turn_number, game_state, snapshot, orders, setup_complete,
           scored_on_locations, gate_stop, tier_check, launch, enemy, submitted,
           last_frame, quiet_runs, est >>

NoGameState == [board |-> << >>, upgraded |-> {}, cores |-> 0, bits |-> 0]

NoStop == [pass |-> "none", idx |-> 0, seen |-> 0]

NoCheck == [done |-> FALSE, present |-> {}]

NoLaunch == [decided |-> FALSE, checked |-> FALSE, launched |-> FALSE, check_ok |-> FALSE, ind |-> 0,
             quantity |-> 0, placed |-> 0, seen |-> 0, risks |-> << >>]

NoEstimate == [layout |-> NoLayout, location_options |-> << >>, damages |-> << >>, done |-> FALSE]

\* the per-turn variables that on_turn's steps leave alone
TurnFrame == << turn_number, snapshot, scored_on_locations, submitted, last_frame, est >>

\* on_game_start
Init ==
    /\ pc = "idle"
    /\ fi = 0
    /\ turn_number = -1
    /\ game_state = NoGameState
    /\ snapshot = NoGameState
    /\ orders = << >>
    /\ setup_complete = FALSE
    /\ scored_on_locations = << >>
    /\ gate_stop = NoStop
    /\ tier_check = NoCheck
    /\ launch = NoLaunch
    /\ enemy = NoLayout
    /\ submitted = -1
    /\ last_frame = << >>
    /\ quiet_runs = 0
    /\ est = NoEstimate

\* on_turn, lines 92-96: a GameState is built from the snapshot of the next turn
OnTurn ==
    /\ pc = "idle"
    /\ turn_number < MaxTurn
    /\ \E b \in SnapshotBoards, c \in SnapshotCores, m \in SnapshotBits :
        /\ (turn_number = -1 => b = EmptyBoard)
        /\ game_state' = [board |-> b.board, upgraded |-> b.upgraded, cores |-> c, bits |-> m]
        /\ quiet_runs' = IF b = FullBoard THEN quiet_runs + (IF quiet_runs < 2 THEN 1 ELSE 0) ELSE 0
    /\ snapshot' = game_state'
    /\ turn_number' = turn_number + 1
    /\ orders' = << >>
    /\ gate_stop' = NoStop
    /\ tier_check' = NoCheck
    /\ launch' = NoLaunch
    /\ enemy' = NoLayout
    /\ last_frame' = << >>
    /\ fi' = 0
    /\ pc' = IF setup_complete THEN "reactive" ELSE "setup"
    /\ UNCHANGED << setup_complete, scored_on_locations, submitted, est >>

\* build_initial_defences, lines 96-98 and 108
BuildInitialDefences ==
    /\ pc = "setup"
    /\ LET r == attempt_spawn(game_state, DESTRUCTOR, destructor_goals, 1)
       IN  /\ game_state' = r.gs
           /\ orders' = Append(orders, Order("spawn", DESTRUCTOR, destructor_goals, 1, r.n,
                                             "setup", 0, game_state.cores))
    /\ setup_complete' = TRUE
    /\ pc' = "reactive"
    /\ UNCHANGED << fi, gate_stop, tier_check, launch, enemy, quiet_runs >>
    /\ UNCHANGED TurnFrame

\* build_reactive_defense, line 119: the initial destructors are reissued
ReissueDestructors ==
    /\ pc = "reactive"
    /\ LET r == attempt_spawn(game_state, DESTRUCTOR, destructor_goals, 1)
       IN  /\ game_state' = r.gs
           /\ orders' = Append(orders, Order("spawn", DESTRUCTOR, destructor_goals, 1, r.n,
                                             "initial", 0, game_state.cores))
    /\ fi' = 1
    /\ pc' = "filters"
    /\ UNCHANGED << setup_complete, gate_stop, tier_check, launch, enemy, quiet_runs >>
    /\ UNCHANGED TurnFrame

\* faulty variant: the gate leaves the loop instead of the function
FilterGateStop_Break ==
    /\ pc = "filters"
    /\ fi <= Len(filter_goals)
    /\ BelowFilterGate(game_state)
    /\ gate_stop' = [pass |-> "filters", idx |-> fi, seen |-> get_resource(game_state, "CORES")]
    /\ fi' = Len(filter_goals) + 1
    /\ UNCHANGED << pc, game_state, orders, setup_complete, tier_check, launch, enemy, quiet_runs >>
    /\ UNCHANGED TurnFrame

\* lines 121-124: the gate ends build_reactive_defense
FilterGateStop ==
    /\ pc = "filters"
    /\ fi <= Len(filter_goals)
    /\ BelowFilterGate(game_state)
    /\ gate_stop' = [pass |-> "filters", idx |-> fi, seen |-> get_resource(game_state, "CORES")]
    /\ pc' = "scramblers"
    /\ UNCHANGED << fi, game_state, orders, setup_complete, tier_check, launch, enemy, quiet_runs >>
    /\ UNCHANGED TurnFrame

\* lines 121-132: one filter of the diagonal line is built and upgraded
FilterBuild ==
    /\ pc = "filters"
    /\ fi <= Len(filter_goals)
    /\ ~BelowFilterGate(game_state)
    /\ LET r == FilterPair(game_state, filter_goals[fi], "filters", fi)
       IN  /\ game_state' = r.gs
           /\ orders' = orders \o r.orders
    /\ fi' = fi + 1
    /\ UNCHANGED << pc, setup_complete, gate_stop, tier_check, launch, enemy, quiet_runs >>
    /\ UNCHANGED TurnFrame

\* lines 137-148: the mid-game builds, then the tier-completion check
MidGameBuild ==
    /\ pc = "filters"
    /\ fi > Len(filter_goals)
    /\ LET r == MidGame(game_state)
       IN  /\ game_state' = r.gs
           /\ orders' = orders \o r.orders
           /\ tier_check' = [done |-> TRUE,
                             present |-> {c \in Range(secondary_destructor_goals) :
                                            contains_stationary_unit(r.gs, c)}]
           /\ pc' = IF destructor_set_built(r.gs, secondary_destructor_goals)
                    THEN "reinforce" ELSE "scramblers"
    /\ fi' = 1
    /\ UNCHANGED << setup_complete, gate_stop, launch, enemy, quiet_runs >>
    /\ UNCHANGED TurnFrame

\* lines 151-161: a reinforcement target in the centre path is skipped
ReinforceSkip ==
    /\ pc = "reinforce"
    /\ fi <= Len(filter_goals_for_reinforcement)
    /\ InCenterPath(ReinforceTarget(filter_goals_for_reinforcement[fi]))
    /\ fi' = fi + 1
    /\ UNCHANGED << pc, game_state, orders, setup_complete, gate_stop, tier_check, launch,
                    enemy, quiet_runs >>
    /\ UNCHANGED TurnFrame

\* lines 162-164: the gate ends build_reactive_defense
ReinforceGateStop ==
    /\ pc = "reinforce"
    /\ fi <= Len(filter_goals_for_reinforcement)
    /\ ~InCenterPath(ReinforceTarget(filter_goals_for_reinforcement[fi]))
    /\ BelowFilterGate(game_state)
    /\ gate_stop' = [pass |-> "reinforce", idx |-> fi, seen |-> get_resource(game_state, "CORES")]
    /\ pc' = "scramblers"
    /\ UNCHANGED << fi, game_state, orders, setup_complete, tier_check, launch, enemy, quiet_runs >>
    /\ UNCHANGED TurnFrame

\* lines 165-170: one reinforcement filter is built and upgraded
ReinforceBuild ==
    /\ pc = "reinforce"
    /\ fi <= Len(filter_goals_for_reinforcement)
    /\ ~InCenterPath(ReinforceTarget(filter_goals_for_reinforcement[fi]))
    /\ ~BelowFilterGate(game_state)
    /\ LET r == FilterPair(game_state, ReinforceTarget(filter_goals_for_reinforcement[fi]),
                           "reinforce", fi)
       IN  /\ game_state' = r.gs
           /\ orders' = orders \o r.orders
    /\ fi' = fi + 1
    /\ UNCHANGED << pc, setup_complete, gate_stop, tier_check, launch, enemy, quiet_runs >>
    /\ UNCHANGED TurnFrame

\* lines 179-180: the third destructor set
EndGameBuild ==
    /\ pc = "reinforce"
    /\ fi > Len(filter_goals_for_reinforcement)
    /\ LET r == EndGame(game_state)
       IN  /\ game_state' = r.gs
           /\ orders' = orders \o r.orders
    /\ pc' = "scramblers"
    /\ UNCHANGED << fi, setup_complete, gate_stop, tier_check, launch, enemy, quiet_runs >>
    /\ UNCHANGED TurnFrame

\* starter_strategy, lines 198-206: the scramblers of the early turns
Scramblers ==
    /\ pc = "scramblers"
    /\ LET targets == ScramblerTargets(turn_number)
       IN  IF targets = << >>
           THEN UNCHANGED << game_state, orders >>
           ELSE LET a == attempt_spawn(game_state, SCRAMBLER, << targets[1] >>, 1)
                    b == attempt_spawn(a.gs, SCRAMBLER, << targets[2] >>, 1)
                IN  /\ game_state' = b.gs
                    /\ orders' = orders \o
                           << Order("spawn", SCRAMBLER, << targets[1] >>, 1, a.n, "scramblers", 1,
                                    game_state.bits),
                              Order("spawn", SCRAMBLER, << targets[2] >>, 1, b.n, "scramblers", 2,
                                    a.gs.bits) >>
    /\ pc' = "pings"
    /\ UNCHANGED << fi, setup_complete, gate_stop, tier_check, launch, enemy, quiet_runs >>
    /\ UNCHANGED TurnFrame

\* spam_pings_if_good, lines 254-255: below the threshold nothing is launched
SpamPingsSkip ==
    /\ pc = "pings"
    /\ ~(max_num_pings(game_state) >= spawn_threshold(turn_number))
    /\ launch' = [NoLaunch EXCEPT !.decided = TRUE, !.quantity = max_num_pings(game_state),
                                  !.seen = get_resource(game_state, "BITS")]
    /\ pc' = "submit"
    /\ UNCHANGED << fi, game_state, orders, setup_complete, gate_stop, tier_check, enemy,
                    quiet_runs >>
    /\ UNCHANGED TurnFrame

\* spam_pings_if_good, lines 248-253: a random candidate, the pre-check, the launch
SpamPingsLaunch ==
    /\ pc = "pings"
    /\ max_num_pings(game_state) >= spawn_threshold(turn_number)
    /\ \E ind \in good_indices, layout \in EnemyLayouts :
        /\ can_spawn(game_state, PING, our_placements[ind], max_num_pings(game_state))
        /\ LET r == attempt_spawn(game_state, PING, << our_placements[ind] >>,
                                  max_num_pings(game_state))
           IN  /\ game_state' = r.gs
               /\ orders' = Append(orders,
                                   Order("spawn", PING, << our_placements[ind] >>,
                                         max_num_pings(game_state), r.n, "pings", ind,
                                         game_state.bits))
               /\ launch' = [decided |-> TRUE, checked |-> TRUE, launched |-> TRUE, check_ok |-> TRUE,
                             ind |-> ind, quantity |-> max_num_pings(game_state),
                             placed |-> r.n, seen |-> get_resource(game_state, "BITS"),
                             risks |-> location_to_damages(layout, our_placements)]
        /\ enemy' = layout
    /\ pc' = "submit"
    /\ UNCHANGED << fi, setup_complete, gate_stop, tier_check, quiet_runs >>
    /\ UNCHANGED TurnFrame

\* spam_pings_if_good, line 251: the assertion fails and the exception leaves on_turn
SpamPingsAssertFails ==
    /\ pc = "pings"
    /\ max_num_pings(game_state) >= spawn_threshold(turn_number)
    /\ \E ind \in good_indices, layout \in EnemyLayouts :
        /\ ~can_spawn(game_state, PING, our_placements[ind], max_num_pings(game_state))
        /\ launch' = [decided |-> TRUE, checked |-> TRUE, launched |-> FALSE, check_ok |-> FALSE,
                      ind |-> ind, quantity |-> max_num_pings(game_state),
                      placed |-> 0, seen |-> get_resource(game_state, "BITS"),
                      risks |-> location_to_damages(layout, our_placements)]
        /\ enemy' = layout
    /\ pc' = "crashed"
    /\ UNCHANGED << fi, game_state, orders, setup_complete, gate_stop, tier_check, quiet_runs >>
    /\ UNCHANGED TurnFrame

\* on_turn, line 102: the order batch is submitted and the turn's GameState is dropped
SubmitTurn ==
    /\ pc = "submit"
    /\ submitted' = turn_number
    /\ pc' = "idle"
    /\ game_state' = NoGameState
    /\ snapshot' = NoGameState
    /\ orders' = << >>
    /\ gate_stop' = NoStop
    /\ tier_check' = NoCheck
    /\ launch' = NoLaunch
    /\ enemy' = NoLayout
    /\ fi' = 0
    /\ UNCHANGED << turn_number, setup_complete, scored_on_locations, last_frame, quiet_runs, est >>

\* on_action_frame: one frame of breach events between two turns
OnActionFrame ==
    /\ pc = "idle"
    /\ submitted >= 0
    /\ \E frame \in Frames :
        /\ Len(RecordBreaches(scored_on_locations, frame)) <= MaxHistory
        /\ scored_on_locations' = RecordBreaches(scored_on_locations, frame)
        /\ last_frame' = frame
    /\ UNCHANGED << pc, fi, turn_number, game_state, snapshot, orders, setup_complete, gate_stop,
                    tier_check, launch, enemy, submitted, quiet_runs, est >>

Next ==
    \/ OnTurn
    \/ BuildInitialDefences
    \/ ReissueDestructors
    \/ FilterGateStop
    \/ FilterBuild
    \/ MidGameBuild
    \/ ReinforceSkip
    \/ ReinforceGateStop
    \/ ReinforceBuild
    \/ EndGameBuild
    \/ Scramblers
    \/ SpamPingsSkip
    \/ SpamPingsLaunch
    \/ SpamPingsAssertFails
    \/ SubmitTurn
    \/ OnActionFrame

Spec == Init /\ [][Next]_vars

\* ------------------------------------------------------------- the estimator alone
\* location_to_damages applied to every bounded input
InitDamages ==
    /\ pc = "idle"
    /\ fi = 0
    /\ turn_number = -1
    /\ game_state = NoGameState
    /\ snapshot = NoGameState
    /\ orders = << >>
    /\ setup_complete = FALSE
    /\ scored_on_locations = << >>
    /\ gate_stop = NoStop
    /\ tier_check = NoCheck
    /\ launch = NoLaunch
    /\ enemy = NoLayout
    /\ submitted = -1
    /\ last_frame = << >>
    /\ quiet_runs = 0
    /\ \E p \in [EstimatorLocations -> SeqsUpTo(EstimatorTiles, MaxPathLen)],
          a \in [EstimatorTiles -> 0..MaxAttackers],
          o \in SeqsUpTo(EstimatorLocations, MaxOptions) :
        est = [layout |-> [path |-> p, attackers |-> a], location_options |-> o,
               damages |-> << >>, done |-> FALSE]

Estimate ==
    /\ ~est.done
    /\ est' = [est EXCEPT !.damages = location_to_damages(est.layout, est.location_options),
                          !.done = TRUE]
    /\ UNCHANGED << pc, fi, turn_number, game_state, snapshot, orders, setup_complete,
                    scored_on_locations, gate_stop, tier_check, launch, enemy, submitted,
                    last_frame, quiet_runs >>

NextDamages == Estimate

SpecDamages == InitDamages /\ [][NextDamages]_vars

\* ------------------------------------------------------------- claims
OrderIdx == 1..Len(orders)

\* the orders of the filter pairs of both passes
IsFilterPairOrder(o) == o.pass \in {"filters", "reinforce"}

\* the orders of the passes behind the tier-completion check
IsReinforcementOrder(o) == o.pass \in {"reinforce", "third"}

\* the orders that build or upgrade a structure
IsStructureOrder(o) == o.op = "upgrade" \/ is_stationary(o.unit)

\* C1: every filter build+upgrade pair that is issued, in the primary and in the
\* reinforcement pass, was issued at a cores balance of at least the combined
\* build+upgrade cost of the pair, the 2-unit gate.
C1_PairAffordable ==
    \A i \in OrderIdx :
        IsFilterPairOrder(orders[i]) =>
            /\ orders[i].seen >= 2 * Unit
            /\ orders[i].seen >= type_cost(FILTER, FALSE) + type_cost(FILTER, TRUE)

C1_Witness ==
    /\ \E i \in OrderIdx : orders[i].pass = "filters" /\ orders[i].op = "spawn" /\ orders[i].done = 1
    /\ \E i \in OrderIdx : orders[i].pass = "reinforce" /\ orders[i].op = "upgrade" /\ orders[i].done = 1

\* C2: once the allocator has reached a filter_goals entry with fewer than 2 cores,
\* the turn's orders build or upgrade nothing at that entry, at a later entry or in
\* a later pass, and the initial destructor build orders are among them.
C2_GateStopsTurn ==
    gate_stop.pass = "filters" =>
        /\ gate_stop.seen < 2 * Unit
        /\ \E i \in OrderIdx :
              /\ orders[i].pass = "initial" /\ orders[i].op = "spawn"
              /\ orders[i].unit = DESTRUCTOR /\ orders[i].locs = destructor_goals
        /\ \A i \in OrderIdx :
              IsStructureOrder(orders[i]) =>
                  \/ orders[i].op = "spawn" /\ orders[i].unit = DESTRUCTOR
                        /\ orders[i].locs = destructor_goals
                  \/ \E k \in 1..(gate_stop.idx - 1) :
                        orders[i].unit = FILTER /\ orders[i].locs = << filter_goals[k] >>

C2_Witness ==
    /\ gate_stop.pass = "filters"
    /\ gate_stop.idx > 1
    /\ pc = "submit"
    /\ \E i \in OrderIdx : orders[i].pass = "initial"

\* C3: an order of the reinforcement pass (reinforcement filters, third destructor
\* set) is only issued in a turn whose tier-completion check saw a structure on every
\* secondary_destructor_goals coordinate; when one was missing, none is issued.
C3_TierGate ==
    /\ (\E i \in OrderIdx : IsReinforcementOrder(orders[i]))
          => tier_check.done /\ tier_check.present = Range(secondary_destructor_goals)
    /\ pc = "reinforce"
          => tier_check.done /\ tier_check.present = Range(secondary_destructor_goals)

C3_Witness ==
    /\ \E i \in OrderIdx : orders[i].pass = "third" /\ orders[i].done > 0
    /\ \E i \in OrderIdx : orders[i].pass = "reinforce" /\ orders[i].done > 0
    /\ Range(secondary_destructor_goals) \subseteq DOMAIN game_state.board

\* C4: an allocator run on a board where every plan coordinate is built and
\* upgraded, and a second run right after it, place nothing, upgrade nothing, leave
\* the cores balance as the snapshot gave it and raise no error.
C4_Idempotent ==
    (quiet_runs >= 1 /\ pc # "idle") =>
        /\ game_state.board = snapshot.board
        /\ game_state.upgraded = snapshot.upgraded
        /\ game_state.cores = snapshot.cores
        /\ \A i \in OrderIdx : IsStructureOrder(orders[i]) => orders[i].done = 0
        /\ pc = "crashed" => launch.checked

C4_Witness ==
    /\ quiet_runs = 2
    /\ pc = "scramblers"
    /\ gate_stop.pass = "none"
    /\ \E i \in OrderIdx : orders[i].pass = "third"
    /\ \E i \in OrderIdx : orders[i].pass = "reinforce"

RECURSIVE MinOf(_)
MinOf(seq) ==
    IF Len(seq) = 1 THEN seq[1]
    ELSE LET m == MinOf(Tail(seq)) IN IF seq[1] < m THEN seq[1] ELSE m

\* C5 (as claimed): the coordinate a launch spawns at has a risk score of at most
\* 1.5 times the minimum risk score among the candidates of that decision.
C5_WithinRiskBand ==
    launch.launched => 2 * launch.risks[launch.ind] <= 3 * MinOf(launch.risks)

\* C6 (as claimed): a failed can_spawn pre-check aborts the launch only; no
\* exception escapes the decision pass and the turn goes on to its submission.
C6_FailedCheckAbortsLaunchOnly ==
    (launch.checked /\ ~launch.check_ok) => (pc # "crashed" /\ pc \in {"submit", "idle"})

\* C7 (as claimed): after a launch executed at turn t the threshold that gates a
\* launch equals the step function of t.
C7_StepThreshold ==
    launch.launched => spawn_threshold(turn_number) = StepThreshold(turn_number)

\* bits spent by the scrambler orders of the turn
RECURSIVE ScramblerSpend(_)
ScramblerSpend(os) ==
    IF os = << >> THEN 0
    ELSE (IF Head(os).pass = "scramblers" THEN Head(os).done * type_cost(SCRAMBLER, FALSE) ELSE 0)
         + ScramblerSpend(Tail(os))

\* C8 (as claimed): the quantity of a launch is the number of units that the spawn
\* currency of the turn's snapshot affords.
C8_QuantityFromSnapshot ==
    launch.launched =>
        /\ launch.quantity = snapshot.bits \div type_cost(PING, FALSE)
        /\ launch.placed = launch.quantity

\* C8 (amended): the quantity of a launch is the number of units afforded by the
\* spawn currency left at the decision, the snapshot's less what the turn's
\* scramblers took; 12 bits at turn 3 launch 10 units at a candidate coordinate.
C8_QuantityFromRemainingBits ==
    launch.launched =>
        /\ launch.placed = (snapshot.bits - ScramblerSpend(orders)) \div type_cost(PING, FALSE)
        /\ launch.quantity = launch.placed
        /\ orders[Len(orders)].unit = PING
        /\ orders[Len(orders)].locs = << our_placements[launch.ind] >>
        /\ orders[Len(orders)].done = launch.placed
        /\ (turn_number = 3 /\ snapshot.bits = 12 * Unit) => launch.placed = 10

C8_Witness ==
    /\ launch.launched
    /\ turn_number = 3
    /\ snapshot.bits = 12 * Unit
    /\ launch.placed = 10
    /\ ScramblerSpend(orders) = 2 * Unit

\* the locations of the opponent-owned breaches of a frame, in delivery order
OpponentBreaches(frame) ==
    LET IsOpponent(e) == e[2] = 2
        sel == SelectSeq(frame, IsOpponent)
    IN  [i \in 1..Len(sel) |-> sel[i][1]]

\* C9: an action frame appends one record per opponent-owned breach event, in
\* delivery order, and none for a self-owned one; no other step changes the
\* history, and no step removes, reorders or changes a record.
C9_BreachHistory ==
    [][ IF pc = "idle" /\ pc' = "idle"
        THEN scored_on_locations' = scored_on_locations \o OpponentBreaches(last_frame')
        ELSE scored_on_locations' = scored_on_locations ]_vars

C9_Witness ==
    /\ scored_on_locations = << <<0, 13>>, <<5, 13>> >>
    /\ last_frame = << << <<5, 13>>, 2 >>, << <<5, 13>>, 1 >> >>

\* occurrences of tile t on a route
Occurrences(path, t) == Cardinality({k \in 1..Len(path) : path[k] = t})

RECURSIVE SumOver(_, _, _)
SumOver(tiles, path, attackers) ==
    IF tiles = {} THEN 0
    ELSE LET t == CHOOSE x \in tiles : TRUE
         IN  Occurrences(path, t) * attackers[t] * damage_i(DESTRUCTOR)
             + SumOver(tiles \ {t}, path, attackers)

\* C10: location_to_damages returns one score per candidate, at the candidate's
\* index; the score is the sum over the tiles of the candidate's route of the
\* attackers in range times the per-hit damage, 0 for an empty route.
C10_Damages ==
    est.done =>
        /\ Len(est.damages) = Len(est.location_options)
        /\ \A i \in 1..Len(est.location_options) :
              LET path == est.layout.path[est.location_options[i]]
              IN  /\ est.damages[i] = SumOver(Range(path), path, est.layout.attackers)
                  /\ path = << >> => est.damages[i] = 0

C10_Witness ==
    /\ est.done
    /\ Len(est.location_options) = 2
    /\ est.layout.path[est.location_options[1]] # << >>
    /\ est.damages[1] > 0
    /\ est.layout.path[est.location_options[2]] = << >>
    /\ est.damages[2] = 0

\* C11 (as claimed): a turn's order batch is submitted exactly once, after all the
\* orders of its decision pass; no order follows the submission, and every turn
\* that starts a decision pass ends with a submission.
C11_EveryTurnSubmitted ==
    /\ pc = "idle" => (submitted = turn_number /\ orders = << >>)
    /\ pc # "idle" => submitted = turn_number - 1
    /\ pc # "crashed"

\* cores taken by the engine for the units placed and the upgrades made by the
\* turn's orders
RECURSIVE CoresSpend(_)
CoresSpend(os) ==
    IF os = << >> THEN 0
    ELSE (IF IsStructureOrder(Head(os))
          THEN Head(os).done * type_cost(Head(os).unit, Head(os).op = "upgrade")
          ELSE 0)
         + CoresSpend(Tail(os))

\* C12 (as claimed): the cores balance the agent reads is the one the engine left:
\* within a turn it changes only by what attempt_spawn and attempt_upgrade took.
C12_OnlyEngineWritesCores ==
    pc # "idle" => game_state.cores = snapshot.cores - CoresSpend(orders)

\* structures standing now that the turn's snapshot did not hold
PlacedThisTurn == DOMAIN game_state.board \ DOMAIN snapshot.board

\* C13: every filter build order of the allocator is directly followed by the
\* upgrade order for the same coordinate; when the build places a filter the
\* upgrade takes effect and is paid from cores in hand (the balance read before
\* the pair, less the filter, plus the half core of lines 129-130), so no filter
\* placed in a turn is left without upgrade.
C13_BuildThenUpgrade ==
    /\ \A i \in OrderIdx :
          (IsFilterPairOrder(orders[i]) /\ orders[i].op = "spawn") =>
              /\ i + 1 <= Len(orders)
              /\ orders[i + 1].op = "upgrade"
              /\ orders[i + 1].locs = orders[i].locs
              /\ orders[i].done = 1 =>
                    /\ orders[i + 1].done = 1
                    /\ orders[i].seen - type_cost(FILTER, FALSE) + 1 >= type_cost(FILTER, TRUE)
    /\ \A i \in OrderIdx :
          (IsFilterPairOrder(orders[i]) /\ orders[i].op = "upgrade") =>
              /\ i > 1
              /\ orders[i - 1].op = "spawn" /\ orders[i - 1].unit = FILTER
              /\ orders[i - 1].locs = orders[i].locs
    /\ pc # "idle" =>
          \A c \in PlacedThisTurn : game_state.board[c] = FILTER => c \in game_state.upgraded

C13_Witness ==
    \E i \in OrderIdx :
        /\ orders[i].pass = "filters" /\ orders[i].op = "spawn" /\ orders[i].done = 1
        /\ orders[i].seen = 2 * Unit
        /\ orders[i + 1].op = "upgrade" /\ orders[i + 1].done = 1
        /\ orders[i].locs[1] \in game_state.upgraded

\* position of an entry in the declaration of filter_goals
DeclIndex(f) == CHOOSE k \in 1..Len(filter_goals) : filter_goals[k] = f

\* the filter_goals entry a reinforcement coordinate was derived from
BaseOf(loc) == CHOOSE f \in Range(filter_goals) : f[2] = loc[2] /\ (f[1] - loc[1]) \in {-1, 1}

\* the orders of a pass that spawn a filter, in the order they were issued
FilterSpawns(pass) ==
    LET IsSpawn(o) == o.pass = pass /\ o.op = "spawn"
    IN  SelectSeq(orders, IsSpawn)

\* C14: the filter_goals entries that got orders in a turn are a prefix of
\* filter_goals, taken in declaration order; in the reinforcement pass entries of
\* the same row are processed in their declaration order.
C14_DeclarationOrder ==
    /\ LET fs == FilterSpawns("filters")
       IN  /\ Len(fs) <= Len(filter_goals)
           /\ \A n \in 1..Len(fs) : fs[n].locs = << filter_goals[n] >>
    /\ LET rs == FilterSpawns("reinforce")
       IN  \A n, m \in 1..Len(rs) :
              (n < m /\ rs[n].locs[1][2] = rs[m].locs[1][2]) =>
                  DeclIndex(BaseOf(rs[n].locs[1])) < DeclIndex(BaseOf(rs[m].locs[1]))

C14_Witness ==
    /\ Len(FilterSpawns("reinforce")) >= 2
    /\ FilterSpawns("reinforce")[1].locs = << <<4, 13>> >>
    /\ FilterSpawns("reinforce")[2].locs = << <<23, 13>> >>
    /\ Len(FilterSpawns("filters")) = Len(filter_goals)

\* twice the distance of a column from the vertical centre line of the board
OffCentre(x) == IF 2 * x >= 27 THEN 2 * x - 27 ELSE 27 - 2 * x

\* C15: every order of the reinforcement filter pass goes to a filter_goals
\* coordinate moved one column towards the centre on its row and never to columns
\* 12 to 15; a skipped corridor coordinate does not end the pass.
C15_CorridorKeptClear ==
    /\ \A i \in OrderIdx :
          orders[i].pass = "reinforce" =>
              LET loc == orders[i].locs[1]
              IN  /\ ~(loc[1] \in 12..15)
                  /\ \E f \in Range(filter_goals) :
                        /\ f[2] = loc[2]
                        /\ (f[1] - loc[1]) \in {-1, 1}
                        /\ OffCentre(loc[1]) < OffCentre(f[1])
    /\ gate_stop.pass = "reinforce" =>
          ~(ReinforceTarget(filter_goals_for_reinforcement[gate_stop.idx])[1] \in 12..15)
    /\ (pc \in {"scramblers", "pings", "submit", "crashed"}
          /\ tier_check.present = Range(secondary_destructor_goals)
          /\ gate_stop.pass = "none")
          => \E i \in OrderIdx : orders[i].pass = "third"

C15_Witness ==
    /\ pc = "scramblers"
    /\ Len(FilterSpawns("reinforce")) = Len(filter_goals) - 2
    /\ \E i \in OrderIdx : orders[i].pass = "reinforce" /\ orders[i].done = 1
    /\ \E i \in OrderIdx : orders[i].pass = "third"

\* C16 (as claimed): a launch is executed in a turn exactly when the spawn currency
\* available at the decision meets the threshold; below it no launch order is
\* issued and the turn goes on to its submission, the decision being taken again
\* on the next turn.
C16_LaunchIffThreshold ==
    launch.decided =>
        /\ launch.launched <=> launch.seen >= spawn_threshold(turn_number) * Unit
        /\ ~(launch.seen >= spawn_threshold(turn_number) * Unit) =>
              /\ \A i \in OrderIdx : orders[i].unit # PING
              /\ pc = "submit"

\* C17 (as claimed): the cores and bits balances are never negative, neither as the agent reads
\* them before an order nor after any build, upgrade or spawn.
C17_PoolsNonNegative ==
    /\ game_state.cores >= 0
    /\ game_state.bits >= 0
    /\ \A i \in OrderIdx : orders[i].seen >= 0

====
